---- MODULE Spec2Model ----
(***************************************************************************)
(* The hash-chained interaction ledger (BlockChainPersistence), its        *)
(* snapshot persistence, and the Obsidian mirror with its sync queue       *)
(* (ObsidianIntegrationService), as state machines.                        *)
(*                                                                         *)
(* Node runs one task at a time; a handler is cut into atomic steps at its *)
(* awaits that suspend on I/O (disk write, HTTP call).  Each step is one   *)
(* action.                                                                 *)
(***************************************************************************)
EXTENDS Integers, Sequences, FiniteSets, TLC

(***************************************************************************)
(* Bounds of the model.                                                    *)
(***************************************************************************)
MaxAppends == 2        \* askAI requests in a behaviour of Spec
MaxClock == 2          \* Date.now() stops advancing here in Spec
MaxChainLen == 3       \* longest chain handed to validateChain in SpecValidate
MaxFlushes == 16       \* forced saves in a behaviour of SpecRotation
MaxRotationClock == 17 \* Date.now() stops advancing here in SpecRotation
MaxAsks == 2           \* askAI requests in a behaviour of SpecAsk
MaxDocs == 2           \* requests and documents in a behaviour of SpecSync
MaxItems == 2          \* documents in a behaviour of SpecDrain
MaxRateSaves == 2      \* saves that have ended after which no rating is made in SpecRate
MaxIntervals == 2      \* intervals of the sync service live at once in SpecTimers
MaxModeLog == 4        \* entries in the log about the mode after which no probe is started
MaxBatchItems == 3     \* documents in a behaviour of SpecBatch
MaxForceAppends == 5   \* askAI requests in a behaviour of SpecForce
MaxTerminateItems == 1 \* documents in a behaviour of SpecTerminate

(***************************************************************************)
(* Program constants.                                                      *)
(***************************************************************************)
KeepBackups == 10      \* cleanupOldBackups: backupFiles.slice(10)
ForceEvery == 5        \* addBlock: userBlocks.length % 5 === 0
retryAttempts == 3     \* obsidianConfig.retryAttempts
batchSize == 10        \* obsidianConfig.sync.batchSize

Owners == {"u1", "u2"}
Prompts == {"hi"}

(***************************************************************************)
(* Values.                                                                 *)
(* A string built by concatenation is the tuple of its parts; sha256 is    *)
(* collision free on the strings that occur, so a digest is represented by *)
(* the string it was computed from.                                        *)
(***************************************************************************)
Null == <<"null">>
EmptyString == <<>>
Timeout == <<"Timeout">>
Absent == "absent"
Corrupt == "corrupt"

sha256(base) == base

\* generateFallbackResponse: the mock answer is a function of the prompt.
generateFallbackResponse(prompt) == <<"answer to", prompt>>

VARIABLES
    \* BlockChainPersistence
    inMemoryBlocks,   \* Map userId -> array of blocks
    saveQueue,        \* number of entries of this.saveQueue (entries are never read)
    isSaving,
    storagePc,        \* position of initializeStorage / loadFromDisk
    saves,            \* the saveToDisk calls in flight, by caller
    blocksFile,       \* data/blockchain.json: Absent, Corrupt or a document
    backupDir,        \* names (timestamps) of data/backups/blockchain-backup-<ts>.json
    now,              \* the last value Date.now() returned
    \* observation
    appended,         \* blocks addBlock has returned
    lastSave,         \* how the last finished processSaveQueue run ended
    flushCount,       \* saveToDisk calls that ended without an error
    flushed,          \* the Map as it was when the saveToDisk call started whose
                      \* write of the primary file was the last to succeed
    log               \* what the persistence service has logged at error or success
                      \* level about saving and loading, as a set of events

VARIABLES
    \* askAI requests
    saveCaller,       \* who awaits the processSaveQueue run in flight
    responses,        \* request -> what res.json / res.status(500) sent, once sent
    \* ObsidianIntegrationService
    isConnected,
    fallbackMode,
    syncQueue,        \* array of items [type, filePath, retries]
    isSyncing,
    writes,           \* document -> position of its write path (saveAIResponse, sync*)
    drains,           \* caller -> position of its processSyncQueue run
    \* the world around the service
    remote,           \* what an HTTP call to Obsidian ends in: "up", "down", "error"
    vault,            \* file paths written to Obsidian
    localSync,        \* file paths written under obsidian-sync/
    \* observation
    synced,           \* items processSyncQueue pushed to processedItems
    dropped           \* items processSyncQueue logged as discarded

VARIABLES
    \* the sync service's timer
    syncInterval,     \* this.syncInterval: Null or the handle of the last setInterval
    intervals,        \* how many intervals startSyncService has set that are not cleared
    \* the service's log
    logLevel,         \* config.logs.level: "info" or "error"
    syncLog           \* how many entries about a change of mode were written:
                      \* fallback (warn, lines 233 and 306), reconnected (success, line 296)

lvars == <<inMemoryBlocks, saveQueue, isSaving, storagePc, saves, blocksFile,
           backupDir, now, appended, lastSave, flushed, flushCount, log>>

rvars == <<saveCaller, responses>>

\* the service's state but for the write paths
\* the timer and the log's level
tvars == <<syncInterval, intervals, logLevel>>

mvars == <<isConnected, fallbackMode, syncQueue, isSyncing, drains,
           remote, vault, localSync, synced, dropped, tvars, syncLog>>

svars == <<writes, mvars>>

vars == <<lvars, rvars, svars>>

(***************************************************************************)
(* Helpers on Maps (functions with a finite domain) and sequences.         *)
(***************************************************************************)
EmptyMap == [k \in {} |-> <<>>]

MapSet(m, k, v) == [x \in (DOMAIN m) \cup {k} |-> IF x = k THEN v ELSE m[x]]

RECURSIVE SumLen(_, _)
SumLen(m, ks) ==
    IF ks = {} THEN 0
    ELSE LET k == CHOOSE x \in ks : TRUE
         IN  Len(m[k]) + SumLen(m, ks \ {k})

\* The elements of a set of numbers, largest first.
RECURSIVE SortDesc(_)
SortDesc(S) ==
    IF S = {} THEN <<>>
    ELSE LET m == CHOOSE x \in S : \A y \in S : y <= x
         IN  <<m>> \o SortDesc(S \ {m})

\* Array.prototype.slice(n)
Slice(s, n) == IF Len(s) <= n THEN <<>> ELSE SubSeq(s, n + 1, Len(s))

\* Date.now(): never goes back; at most one tick is seen between two reads,
\* and the clock of the model stops at the horizon h.
ClockRead(h) == {now} \cup (IF now < h THEN {now + 1} ELSE {})

(***************************************************************************)
(* BlockChainPersistence: reads.                                           *)
(***************************************************************************)
\* What askAI sees of a missing last block: last?.hash is undefined.
NoBlock == [hash |-> Null]

getUserBlocks(userId) ==
    IF userId \in DOMAIN inMemoryBlocks THEN inMemoryBlocks[userId] ELSE <<>>

getLastBlock(userId) ==
    LET userBlocks == getUserBlocks(userId)
    IN  IF Len(userBlocks) > 0 THEN userBlocks[Len(userBlocks)] ELSE NoBlock

\* The index of the first block whose prevHash is not the hash before it, 0 if none.
RECURSIVE FirstBadLink(_, _)
FirstBadLink(userBlocks, i) ==
    IF i > Len(userBlocks) THEN 0
    ELSE IF userBlocks[i].prevHash # userBlocks[i - 1].hash THEN i
    ELSE FirstBadLink(userBlocks, i + 1)

\* validateChain on an array; blockIndex is the 0-based index the code reports.
validateBlocks(userBlocks) ==
    IF Len(userBlocks) = 0 THEN [valid |-> TRUE, message |-> "Cadeia vazia", blockIndex |-> -1]
    ELSE LET bad == FirstBadLink(userBlocks, 2)
         IN  IF bad # 0
             THEN [valid |-> FALSE, message |-> "Hash anterior invalido", blockIndex |-> bad - 1]
             ELSE [valid |-> TRUE, message |-> "Cadeia valida", blockIndex |-> -1]

validateChain(userId) == validateBlocks(getUserBlocks(userId))

(***************************************************************************)
(* Serialisation of the snapshot document.                                 *)
(***************************************************************************)
\* A block's rating is 0 while the property is undefined (no rating yet).
\* JSON.stringify of one block: a property that is undefined is left out.
BlockToJSON(b) ==
    IF b.rating = 0 THEN [f \in (DOMAIN b) \ {"rating"} |-> b[f]] ELSE b

\* JSON.parse of one block: reading a property that is not there gives undefined.
BlockFromJSON(j) ==
    IF "rating" \in DOMAIN j THEN j
    ELSE [f \in (DOMAIN j) \cup {"rating"} |-> IF f = "rating" THEN 0 ELSE j[f]]

\* saveToDisk lines 84-97: the object built from the Map.  Its arrays are the
\* Map's own arrays until loadFromDisk replaces the Map's entries.  The
\* document's timestamp (line 91) is left out: nothing reads it back.
SnapshotData(blocks) ==
    [version |-> "1.0.0",
     users |-> [u \in DOMAIN blocks |-> blocks[u]],
     metadata |-> [totalUsers |-> Cardinality(DOMAIN blocks),
                   totalBlocks |-> SumLen(blocks, DOMAIN blocks)]]

\* The Map handed to JSON.stringify as it is: a Map has no own enumerable
\* properties, so "users" comes out as an empty object.
StringifyMapItself(data) ==
    [version |-> data.version, users |-> EmptyMap, metadata |-> data.metadata]

\* JSON.stringify(data, null, 2)
Stringify(data) ==
    [version |-> data.version,
     users |-> [u \in DOMAIN data.users |->
                  [i \in 1..Len(data.users[u]) |-> BlockToJSON(data.users[u][i])]],
     metadata |-> data.metadata]

\* loadFromDisk lines 58-64: JSON.parse, then the Map is cleared and refilled
\* from parsed.users.
ParseUsers(text) ==
    [u \in DOMAIN text.users |->
        [i \in 1..Len(text.users[u]) |-> BlockFromJSON(text.users[u][i])]]

AbsentFile == [kind |-> Absent]
CorruptFile == [kind |-> Corrupt]
JsonFile(text) == [kind |-> "json", text |-> text]

(***************************************************************************)
(* ObsidianIntegrationService: how a write path starts.                    *)
(* A document is named by its file path; generateFileName makes the path   *)
(* unique, so the request or document id stands for it.                    *)
(***************************************************************************)
NoWrite == [pc |-> "none", type |-> "none"]

\* saveAIResponse up to its first await (lines 335-353): a probe when the
\* service is in fallback or not connected, else the direct write.
StartSaveAIResponse(d) ==
    IF fallbackMode \/ ~isConnected
    THEN [pc |-> "probe", type |-> "ai-response"]
    ELSE [pc |-> "put", type |-> "ai-response"]

\* askAI with the Obsidian save awaited: no response while the save runs.
AskAIRespondAfterSave(r, block) ==
    /\ writes' = [writes EXCEPT ![r] = StartSaveAIResponse(r)]
    /\ UNCHANGED responses

\* askAI lines 111-155: the Obsidian save is started and not awaited, then the
\* response is sent with the hash and the service's stats of that moment.
AskAIRespond(r, block) ==
    /\ writes' = [writes EXCEPT ![r] = StartSaveAIResponse(r)]
    /\ responses' = [responses EXCEPT ![r] =
            [status |-> 200, hash |-> block.hash, prevHash |-> block.prevHash,
             connected |-> isConnected,
             mode |-> IF fallbackMode THEN "fallback" ELSE "direct"]]

(***************************************************************************)
(* BlockChainPersistence: saveToDisk, cut at its awaits.                   *)
(*   writePrimary  fs.writeFile(blocksFile) in flight       (line 100)     *)
(*   writeBackup   fs.writeFile(backupFile) in flight       (line 107)     *)
(*   readdir       fs.readdir(backupDir) in flight          (line 124)     *)
(*   unlink        fs.unlink of Head(toDelete) in flight    (line 138)     *)
(* Two callers can have a saveToDisk in flight: processSaveQueue ("queue", *)
(* guarded by isSaving) and loadFromDisk ("load", not guarded).            *)
(***************************************************************************)
Callers == {"queue", "load"}
NoDoc == [version |-> "none"]
NoCaller == [kind |-> "none"]
IdleSave == [pc |-> "idle", data |-> NoDoc, aliased |-> FALSE, text |-> NoDoc,
             name |-> 0, toDelete |-> <<>>, captured |-> EmptyMap]
NothingFlushed == [done |-> FALSE, blocks |-> EmptyMap]

\* saveToDisk lines 84-100: the data object is built and stringified, and the
\* write of the primary file is started.
BeginSave(blocks) ==
    [pc |-> "writePrimary", data |-> SnapshotData(blocks), aliased |-> TRUE,
     text |-> Stringify(SnapshotData(blocks)), name |-> 0, toDelete |-> <<>>,
     captured |-> blocks]

\* userBlocks.push(block) is seen through every data object that still holds
\* the same array.
PushAliased(sv, userId, block) ==
    [c \in Callers |->
        IF /\ sv[c].pc = "writePrimary"
           /\ sv[c].aliased
           /\ userId \in DOMAIN sv[c].data.users
        THEN [sv[c] EXCEPT !.data.users[userId] = Append(@, block)]
        ELSE sv[c]]

\* After loadFromDisk cleared the Map, no data object shares an array with it.
Unalias(sv) == [c \in Callers |-> [sv[c] EXCEPT !.aliased = FALSE]]

\* saveToDisk returns to its caller (it never throws: lines 114-116).
\* processSaveQueue then resets isSaving (line 180) and its caller goes on;
\* loadFromDisk returns to initializeStorage, which logs success (line 35).
SaveReturns(c, result, logged) ==
    /\ saves' = [saves EXCEPT ![c] = IdleSave]
    /\ flushCount' = IF result = "saved" THEN flushCount + 1 ELSE flushCount
    /\ log' = IF c = "load" THEN logged \cup {"init_ok"} ELSE logged
    /\ IF c = "queue"
       THEN /\ isSaving' = FALSE
            /\ lastSave' = result
            /\ saveCaller' = NoCaller
            /\ IF saveCaller.kind = "askAI"
               THEN AskAIRespond(saveCaller.req, saveCaller.block)
               ELSE UNCHANGED <<responses, writes>>
            /\ UNCHANGED storagePc
       ELSE /\ storagePc' = "done"
            /\ UNCHANGED <<isSaving, lastSave, saveCaller, responses, writes>>

\* processSaveQueue lines 165-175 when isSaving is false: the queue is emptied
\* and saveToDisk is started.
StartProcessSaveQueue(blocks, sv, caller) ==
    /\ isSaving' = TRUE
    /\ saveQueue' = 0
    /\ saves' = [sv EXCEPT !["queue"] = BeginSave(blocks)]
    /\ saveCaller' = caller

WritePrimary(c, ok, h) ==
    /\ saves[c].pc = "writePrimary"
    /\ IF ok
       THEN \E t \in ClockRead(h) :
              /\ blocksFile' = JsonFile(saves[c].text)
              /\ flushed' = [done |-> TRUE, blocks |-> saves[c].captured]
              /\ now' = t
              /\ saves' = [saves EXCEPT ![c] =
                     [pc |-> "writeBackup", data |-> NoDoc, aliased |-> FALSE,
                      text |-> Stringify(saves[c].data), name |-> t,
                      toDelete |-> <<>>, captured |-> EmptyMap]]
              /\ UNCHANGED <<isSaving, lastSave, saveCaller, responses, writes,
                             storagePc, flushCount, log>>
       ELSE /\ SaveReturns(c, "failed", log \cup {"save_error"})
            /\ UNCHANGED <<blocksFile, now, flushed>>
    /\ UNCHANGED <<inMemoryBlocks, saveQueue, backupDir, appended>>
    /\ UNCHANGED mvars

WriteBackup(c, ok) ==
    /\ saves[c].pc = "writeBackup"
    /\ IF ok
       THEN /\ backupDir' = backupDir \cup {saves[c].name}
            /\ saves' = [saves EXCEPT ![c].pc = "readdir", ![c].text = NoDoc]
            /\ UNCHANGED <<isSaving, lastSave, saveCaller, responses, writes,
                           storagePc, flushCount, log>>
       ELSE /\ SaveReturns(c, "failed", log \cup {"save_error"})
            /\ UNCHANGED backupDir
    /\ UNCHANGED <<inMemoryBlocks, saveQueue, blocksFile, now, appended, flushed>>
    /\ UNCHANGED mvars

\* cleanupOldBackups lines 124-135: the names are sorted newest first and all
\* but the first KeepBackups are to be deleted.
Readdir(c, ok) ==
    /\ saves[c].pc = "readdir"
    /\ LET filesToDelete == Slice(SortDesc(backupDir), KeepBackups)
       IN  IF ok /\ filesToDelete # <<>>
           THEN /\ saves' = [saves EXCEPT ![c].pc = "unlink",
                                          ![c].toDelete = filesToDelete]
                /\ UNCHANGED <<isSaving, lastSave, saveCaller, responses, writes,
                               storagePc, flushCount, log>>
           ELSE SaveReturns(c, "saved", log)
    /\ UNCHANGED <<inMemoryBlocks, saveQueue, blocksFile, backupDir, now, appended, flushed>>
    /\ UNCHANGED mvars

\* cleanupOldBackups lines 137-144: one fs.unlink; an error (also that of a
\* file that is already gone) ends the clean-up in its catch.
Unlink(c, ok) ==
    /\ saves[c].pc = "unlink"
    /\ LET file == Head(saves[c].toDelete)
           rest == Tail(saves[c].toDelete)
       IN  IF ok /\ file \in backupDir
           THEN /\ backupDir' = backupDir \ {file}
                /\ IF rest # <<>>
                   THEN /\ saves' = [saves EXCEPT ![c].toDelete = rest]
                        /\ UNCHANGED <<isSaving, lastSave, saveCaller, responses,
                                       writes, storagePc, flushCount, log>>
                   ELSE SaveReturns(c, "saved", log)
           ELSE /\ SaveReturns(c, "saved", log)
                /\ UNCHANGED backupDir
    /\ UNCHANGED <<inMemoryBlocks, saveQueue, blocksFile, now, appended, flushed>>
    /\ UNCHANGED mvars

(***************************************************************************)
(* BlockChainPersistence: initializeStorage and loadFromDisk, started by   *)
(* the constructor and not awaited (lines 19, 26-76).                      *)
(***************************************************************************)
\* lines 29-30: the two fs.mkdir; an error ends initializeStorage in its catch.
StorageMkdir(ok) ==
    /\ storagePc = "mkdir"
    /\ storagePc' = IF ok THEN "access" ELSE "done"
    /\ log' = IF ok THEN log ELSE log \cup {"init_error"}
    /\ UNCHANGED <<inMemoryBlocks, saveQueue, isSaving, saves, blocksFile,
                   backupDir, now, appended, lastSave, flushed, flushCount>>
    /\ UNCHANGED <<rvars, svars>>

\* lines 47-54: fs.access; with no file an empty snapshot is written by
\* saveToDisk, called directly.
StorageAccess ==
    /\ storagePc = "access"
    /\ IF blocksFile.kind = Absent
       THEN /\ saves' = [saves EXCEPT !["load"] = BeginSave(inMemoryBlocks)]
            /\ storagePc' = "save"
       ELSE /\ storagePc' = "readFile"
            /\ UNCHANGED saves
    /\ UNCHANGED <<inMemoryBlocks, saveQueue, isSaving, blocksFile, backupDir, now,
                   appended, lastSave, flushed, flushCount, log>>
    /\ UNCHANGED <<rvars, svars>>

\* lines 57-75: fs.readFile and JSON.parse; on success the Map is cleared and
\* refilled, on any error it is cleared.  initializeStorage then logs success.
StorageRead(ok) ==
    /\ storagePc = "readFile"
    /\ IF ok /\ blocksFile.kind = "json"
       THEN /\ inMemoryBlocks' = ParseUsers(blocksFile.text)
            /\ log' = log \cup {"init_ok"}
       ELSE /\ inMemoryBlocks' = EmptyMap
            /\ log' = log \cup {IF ok THEN "parse_error" ELSE "read_error", "init_ok"}
    /\ saves' = Unalias(saves)
    /\ storagePc' = "done"
    /\ UNCHANGED <<saveQueue, isSaving, blocksFile, backupDir, now, appended, lastSave,
                   flushed, flushCount>>
    /\ UNCHANGED <<rvars, svars>>

(***************************************************************************)
(* The handlers of the ledger.                                             *)
(***************************************************************************)
NoResponse == [status |-> 0]

UsedDocs == {d \in DOMAIN writes : writes[d].pc # "none" \/ responses[d].status # 0}

\* The id of the next request or document; the domain of writes bounds them.
NextDoc == Cardinality(UsedDocs \cup (IF saveCaller.kind = "askAI" THEN {saveCaller.req} ELSE {})) + 1

\* askAI with the link to the last block forgotten.
NewBlockUnlinked(userId, prompt, answer, t) ==
    [userId |-> userId, prompt |-> prompt, answer |-> answer,
     prevHash |-> Null, hash |-> sha256(<<EmptyString, prompt, answer, t>>),
     ts |-> t, rating |-> 0]

\* askAI suspended between its read of the last block and addBlock while
\* another request of the owner appended: the link is to the block before
\* the last.
NewBlockStale(userId, prompt, answer, t) ==
    LET userBlocks == getUserBlocks(userId)
        last == IF Len(userBlocks) > 1 THEN userBlocks[Len(userBlocks) - 1] ELSE NoBlock
        base == <<IF last.hash = Null THEN EmptyString ELSE last.hash, prompt, answer, t>>
    IN  [userId |-> userId, prompt |-> prompt, answer |-> answer,
         prevHash |-> last.hash, hash |-> sha256(base), ts |-> t, rating |-> 0]

\* askAI lines 89-106
NewBlock(userId, prompt, answer, t) ==
    LET last == getLastBlock(userId)
        base == <<IF last.hash = Null THEN EmptyString ELSE last.hash, prompt, answer, t>>
    IN  [userId |-> userId, prompt |-> prompt, answer |-> answer,
         prevHash |-> last.hash, hash |-> sha256(base), ts |-> t, rating |-> 0]

\* addBlock lines 187-206, with processSaveQueue when the owner's chain length
\* is a multiple of ForceEvery; askAI goes on (AskAIRespond) when addBlock's
\* promise resolves: at once unless a save was started.
AddBlock(r, userId, block) ==
    LET userBlocks == Append(getUserBlocks(userId), block)
        blocks == MapSet(inMemoryBlocks, userId, userBlocks)
        pushed == PushAliased(saves, userId, block)
    IN  /\ inMemoryBlocks' = blocks
        /\ appended' = appended \cup {block}
        /\ IF Len(userBlocks) % ForceEvery = 0 /\ ~isSaving
           THEN /\ StartProcessSaveQueue(blocks, pushed,
                        [kind |-> "askAI", req |-> r, block |-> block])
                /\ UNCHANGED <<responses, writes>>
           ELSE /\ saveQueue' = saveQueue + 1
                /\ saves' = pushed
                /\ AskAIRespond(r, block)
                /\ UNCHANGED <<isSaving, saveCaller>>

\* askAI in mock mode (lines 40-109): the answer is generated, the block is
\* built from the owner's last block and handed to addBlock with no await in
\* between.
AskAI(userId, prompt, h) ==
    /\ NextDoc \in DOMAIN writes
    /\ \E t \in ClockRead(h) :
         /\ now' = t
         /\ AddBlock(NextDoc, userId,
                     NewBlock(userId, prompt, generateFallbackResponse(prompt), t))
    /\ UNCHANGED <<storagePc, blocksFile, backupDir, lastSave, flushed, flushCount, log>>
    /\ UNCHANGED mvars

\* startAutoSave lines 152-156: the timer's callback, when it has work.
AutoSave ==
    /\ saveQueue > 0
    /\ ~isSaving
    /\ StartProcessSaveQueue(inMemoryBlocks, saves, [kind |-> "timer"])
    /\ UNCHANGED <<inMemoryBlocks, storagePc, blocksFile, backupDir, now, appended,
                   lastSave, flushed, flushCount, log, responses>>
    /\ UNCHANGED svars

\* forceBlockchainSave -> forceSave -> processSaveQueue (lines 296-299), when
\* no save is running; with one running it returns at once.
ForceSave ==
    /\ ~isSaving
    /\ StartProcessSaveQueue(inMemoryBlocks, saves, [kind |-> "forceSave"])
    /\ UNCHANGED <<inMemoryBlocks, storagePc, blocksFile, backupDir, now, appended,
                   lastSave, flushed, flushCount, log, responses>>
    /\ UNCHANGED svars

\* The scores rateAIResponse accepts are 1 to 5 (line 291); two of them.
Ratings == {1, 5}

\* userBlocks[blockIndex].rating = ... is seen through every data object
\* that still holds the same block.
RateAliased(sv, userId, blockIndex, rating) ==
    [c \in Callers |->
        IF /\ sv[c].pc = "writePrimary"
           /\ sv[c].aliased
           /\ userId \in DOMAIN sv[c].data.users
           /\ blockIndex <= Len(sv[c].data.users[userId])
        THEN [sv[c] EXCEPT !.data.users[userId][blockIndex].rating = rating]
        ELSE sv[c]]

\* rateAIResponse (ai.controller.js lines 286-311) for a hash the owner's
\* chain has: the rating is set on the first block with the hash, whatever
\* rating the block had, and forceSave is awaited (processSaveQueue, which
\* returns at once while a save is running).  The rating is followed as its
\* score; the response is not followed.
RateAIResponse(userId, hash, rating) ==
    LET userBlocks == getUserBlocks(userId)
        found == {i \in 1..Len(userBlocks) : userBlocks[i].hash = hash}
    IN  /\ found # {}
        /\ LET blockIndex == CHOOSE i \in found : \A j \in found : i <= j
               blocks == MapSet(inMemoryBlocks, userId,
                                [userBlocks EXCEPT ![blockIndex].rating = rating])
               rated == RateAliased(saves, userId, blockIndex, rating)
           IN  /\ inMemoryBlocks' = blocks
               /\ IF ~isSaving
                  THEN StartProcessSaveQueue(blocks, rated,
                           [kind |-> "rate", userId |-> userId,
                            blockIndex |-> blockIndex, rating |-> rating])
                  ELSE /\ saves' = rated
                       /\ UNCHANGED <<isSaving, saveQueue, saveCaller>>
        /\ UNCHANGED <<storagePc, blocksFile, backupDir, now, appended, lastSave, flushed,
                       flushCount, log, responses>>
        /\ UNCHANGED svars

(***************************************************************************)
(* ObsidianIntegrationService: the calls to Obsidian and the write paths.  *)
(* An HTTP call ends as the remote is when it ends: "up" answers 200       *)
(* (404 for a directory that is not there yet), "down" refuses the         *)
(* connection, "error" answers with an error status.                       *)
(*   probe     testConnection's GET / in flight             (line 287)     *)
(*   mkdirGet  ensureDirectory's GET in flight              (line 320)     *)
(*   put       saveToObsidian's PUT in flight               (line 390)     *)
(*   local     saveToLocal's mkdir and writeFile in flight  (lines 420-1)  *)
(* A write path ends in "done" (in Obsidian), "doneLocal" (on local disk   *)
(* and enqueued), "queued" (a deletion, enqueued), "failed" (saveToObsidian*)
(* threw) or "failedLocal" (saveToLocal threw).                            *)
(***************************************************************************)
DocTypes == {"strategic-note", "blog-post", "block"}

Drainers == {"timer", "manual"}
\* processed is processedItems.length; attempts counts the saveToObsidian
\* calls the run has made (lines 617 and 621).
IdleDrain == [pc |-> "idle", item |-> [type |-> "none"], processed |-> 0, attempts |-> 0]

\* testConnection lines 286-309, once the GET has ended: the mode it leaves.
\* A refused connection has gone through the interceptor (lines 229-242)
\* first, which leaves the same mode.
testConnection ==
    IF remote = "up"
    THEN [isConnected |-> TRUE, fallbackMode |-> FALSE]
    ELSE [isConnected |-> FALSE, fallbackMode |-> TRUE]

\* The service's logger at config.logs.level: at level "error" the entries of
\* level warn and success are not written.
LogEntry(entry) ==
    IF logLevel = "info" THEN [syncLog EXCEPT ![entry] = @ + 1] ELSE syncLog

\* The log after a call to Obsidian has failed: the interceptor (lines 229-235)
\* warns of the fallback when the connection was refused and the service was
\* not in fallback yet.  (An error status gets an entry of level error about
\* the response, lines 237-238, which says nothing of the mode.)
interceptorLog ==
    IF remote = "down" /\ ~fallbackMode THEN LogEntry("fallback") ELSE syncLog

\* A testConnection that warns of the fallback at every failure.
testConnectionLogEvery ==
    IF remote = "up"
    THEN IF fallbackMode THEN LogEntry("reconnected") ELSE syncLog
    ELSE LogEntry("fallback")

\* The log after testConnection's GET has ended (lines 289-309): a 200 in
\* fallback is logged as a reconnection (line 296, with the version at line
\* 297); a failure out of fallback is logged once as the change to fallback,
\* by the interceptor (line 233) when the connection was refused, else by the
\* catch (line 306).
testConnectionLog ==
    IF remote = "up"
    THEN IF fallbackMode THEN LogEntry("reconnected") ELSE syncLog
    ELSE IF ~fallbackMode THEN LogEntry("fallback") ELSE syncLog

\* addToSyncQueue lines 576-580
addToSyncQueue(queue, type, filePath) ==
    Append(queue, [type |-> type, filePath |-> filePath, retries |-> 0])

\* saveAIResponse lines 347-351: the probe has ended, the route is chosen.
WriteProbe(d) ==
    /\ writes[d].pc = "probe"
    /\ isConnected' = testConnection.isConnected
    /\ fallbackMode' = testConnection.fallbackMode
    /\ writes' = [writes EXCEPT ![d].pc =
            IF ~testConnection.fallbackMode /\ testConnection.isConnected
            THEN "mkdirGet" ELSE "local"]
    /\ UNCHANGED <<syncQueue, isSyncing, drains, remote, vault, localSync, synced, dropped>>
    /\ syncLog' = testConnectionLog
    /\ UNCHANGED <<lvars, rvars, tvars>>

\* saveToObsidian lines 386-387 and its catch (401-409): any error of
\* ensureDirectory but a 404 puts the service in fallback and is thrown on;
\* saveAIResponse and the sync* methods log it and throw it on.
WriteMkdirGet(d) ==
    /\ writes[d].pc = "mkdirGet"
    /\ IF remote = "up"
       THEN /\ writes' = [writes EXCEPT ![d].pc = "put"]
            /\ UNCHANGED <<isConnected, fallbackMode, syncLog>>
       ELSE /\ writes' = [writes EXCEPT ![d].pc = "failed"]
            /\ fallbackMode' = TRUE
            /\ isConnected' = FALSE
            /\ syncLog' = interceptorLog
    /\ UNCHANGED <<syncQueue, isSyncing, drains, remote, vault, localSync, synced, dropped>>
    /\ UNCHANGED <<lvars, rvars, tvars>>

\* saveToObsidian lines 390-409: the PUT.
WritePut(d) ==
    /\ writes[d].pc = "put"
    /\ IF remote = "up"
       THEN /\ writes' = [writes EXCEPT ![d].pc = "done"]
            /\ vault' = vault \cup {d}
            /\ UNCHANGED <<isConnected, fallbackMode, syncLog>>
       ELSE /\ writes' = [writes EXCEPT ![d].pc = "failed"]
            /\ fallbackMode' = TRUE
            /\ isConnected' = FALSE
            /\ syncLog' = interceptorLog
            /\ UNCHANGED vault
    /\ UNCHANGED <<syncQueue, isSyncing, drains, remote, localSync, synced, dropped>>
    /\ UNCHANGED <<lvars, rvars, tvars>>

\* saveToLocal (lines 415-429), then addToSyncQueue (lines 365, 752, 785, 818);
\* sync.realTime is off, so no drain is started.
WriteLocal(d, ok) ==
    /\ writes[d].pc = "local"
    /\ IF ok
       THEN /\ localSync' = localSync \cup {d}
            /\ syncQueue' = addToSyncQueue(syncQueue, writes[d].type, d)
            /\ writes' = [writes EXCEPT ![d].pc = "doneLocal"]
       ELSE /\ writes' = [writes EXCEPT ![d].pc = "failedLocal"]
            /\ UNCHANGED <<localSync, syncQueue>>
    /\ UNCHANGED <<isConnected, fallbackMode, isSyncing, drains, remote, vault, synced, dropped>>
    /\ UNCHANGED <<lvars, rvars, tvars, syncLog>>

\* syncStrategicNote, syncBlogPost, syncBlock (lines 732-827) up to the first
\* await: a deletion is only enqueued; any other operation goes direct when
\* the service is connected, else to local disk.  There is no probe here.
SyncDocument(type, operation) ==
    /\ NextDoc \in DOMAIN writes
    /\ IF operation = "delete"
       THEN /\ syncQueue' = addToSyncQueue(syncQueue, "delete", NextDoc)
            /\ writes' = [writes EXCEPT ![NextDoc] = [pc |-> "queued", type |-> "delete"]]
       ELSE /\ writes' = [writes EXCEPT ![NextDoc] =
                   [pc |-> IF ~fallbackMode /\ isConnected THEN "mkdirGet" ELSE "local",
                    type |-> type]]
            /\ UNCHANGED syncQueue
    /\ UNCHANGED <<isConnected, fallbackMode, isSyncing, drains, remote, vault, localSync,
                   synced, dropped>>
    /\ UNCHANGED <<lvars, rvars, tvars, syncLog>>

(***************************************************************************)
(* ObsidianIntegrationService: processSyncQueue, cut at its awaits, for    *)
(* the timer's callback ("timer", lines 663-678) and for a request         *)
(* ("manual": POST /queue/process), and testConnection called on its own   *)
(* ("test": startSyncService line 655, GET /status, POST /test-connection).*)
(*   tickProbe  the callback's own testConnection in flight (line 668)     *)
(*   probe      processSyncQueue's testConnection in flight (line 600)     *)
(*   mkdirGet, put   saveToObsidian of the item in hand     (lines 617-21) *)
(*   testProbe  a testConnection on its own in flight                      *)
(***************************************************************************)
\* lines 612-613, 623-626: items of type delete at the head of the queue are shifted
\* and answered with a warning, with no await.
RECURSIVE SkipDeletes(_)
SkipDeletes(queue) ==
    IF queue # <<>> /\ Head(queue).type = "delete" THEN SkipDeletes(Tail(queue)) ELSE queue

\* A loop that ends without resetting isSyncing.
DrainLoopStale(c, queue, processed, syncing) ==
    LET rest == SkipDeletes(queue)
    IN  IF queue # <<>> /\ processed < batchSize /\ rest # <<>>
        THEN /\ syncQueue' = Tail(rest)
             /\ drains' = [drains EXCEPT ![c] =
                    [pc |-> "mkdirGet", item |-> Head(rest), processed |-> processed,
                     attempts |-> drains[c].attempts + 1]]
             /\ isSyncing' = syncing
        ELSE /\ syncQueue' = IF processed < batchSize THEN rest ELSE queue
             /\ drains' = [drains EXCEPT ![c] = IdleDrain]
             /\ isSyncing' = syncing

\* The head of the while loop (line 612) with the queue and the count of
\* processed items as they are then: the next item to write is taken in hand,
\* or the loop ends and isSyncing is reset (line 641).
DrainLoop(c, queue, processed, syncing) ==
    LET rest == SkipDeletes(queue)
    IN  IF queue # <<>> /\ processed < batchSize /\ rest # <<>>
        THEN /\ syncQueue' = Tail(rest)
             /\ drains' = [drains EXCEPT ![c] =
                    [pc |-> "mkdirGet", item |-> Head(rest), processed |-> processed,
                     attempts |-> drains[c].attempts + 1]]
             /\ isSyncing' = syncing
        ELSE /\ syncQueue' = IF processed < batchSize THEN rest ELSE queue
             /\ drains' = [drains EXCEPT ![c] = IdleDrain]
             /\ isSyncing' = FALSE

\* processSyncQueue lines 594-610 with the service's fallbackMode as given.
EnterProcessSyncQueue(c, fallback) ==
    IF isSyncing \/ syncQueue = <<>>
    THEN /\ drains' = [drains EXCEPT ![c] = IdleDrain]
         /\ UNCHANGED <<syncQueue, isSyncing>>
    ELSE IF fallback
    THEN /\ drains' = [drains EXCEPT ![c] = [IdleDrain EXCEPT !.pc = "probe"]]
         /\ UNCHANGED <<syncQueue, isSyncing>>
    ELSE DrainLoop(c, syncQueue, 0, TRUE)

\* POST /queue/process (obsidian.routes.js lines 347-365): refused while
\* isSyncing; with an empty queue processSyncQueue returns at once.
ProcessSyncQueue(c) ==
    /\ drains[c].pc = "idle"
    /\ ~isSyncing
    /\ syncQueue # <<>>
    /\ EnterProcessSyncQueue(c, fallbackMode)
    /\ UNCHANGED <<isConnected, fallbackMode, remote, vault, localSync, synced, dropped,
                   writes>>
    /\ UNCHANGED <<lvars, rvars, tvars, syncLog>>

\* The callback of an interval startSyncService has set (lines 663-674) when
\* the queue has items: in fallback it probes first, then it calls
\* processSyncQueue.
TimerTick(c) ==
    /\ intervals > 0
    /\ drains[c].pc = "idle"
    /\ syncQueue # <<>>
    /\ IF fallbackMode
       THEN /\ drains' = [drains EXCEPT ![c] = [IdleDrain EXCEPT !.pc = "tickProbe"]]
            /\ UNCHANGED <<syncQueue, isSyncing>>
       ELSE /\ ~isSyncing
            /\ EnterProcessSyncQueue(c, fallbackMode)
    /\ UNCHANGED <<isConnected, fallbackMode, remote, vault, localSync, synced, dropped,
                   writes>>
    /\ UNCHANGED <<lvars, rvars, tvars, syncLog>>

\* lines 668-674: the callback's probe has ended.
TickProbe(c) ==
    /\ drains[c].pc = "tickProbe"
    /\ isConnected' = testConnection.isConnected
    /\ fallbackMode' = testConnection.fallbackMode
    /\ EnterProcessSyncQueue(c, testConnection.fallbackMode)
    /\ UNCHANGED <<remote, vault, localSync, synced, dropped, writes>>
    /\ syncLog' = testConnectionLog
    /\ UNCHANGED <<lvars, rvars, tvars>>

\* lines 599-610: processSyncQueue's probe has ended; connected, it sets
\* isSyncing and enters the loop without looking at isSyncing again.
DrainProbe(c) ==
    /\ drains[c].pc = "probe"
    /\ isConnected' = testConnection.isConnected
    /\ fallbackMode' = testConnection.fallbackMode
    /\ IF testConnection.isConnected
       THEN DrainLoop(c, syncQueue, 0, TRUE)
       ELSE /\ drains' = [drains EXCEPT ![c] = IdleDrain]
            /\ UNCHANGED <<syncQueue, isSyncing>>
    /\ UNCHANGED <<remote, vault, localSync, synced, dropped, writes>>
    /\ syncLog' = testConnectionLog
    /\ UNCHANGED <<lvars, rvars, tvars>>

\* A loop that puts a failed item back once more than retryAttempts allows.
DrainFailureInclusive(c) ==
    LET item == drains[c].item
    IN  /\ fallbackMode' = TRUE
        /\ isConnected' = FALSE
        /\ syncLog' = interceptorLog
        /\ IF item.retries <= retryAttempts
           THEN /\ DrainLoop(c, Append(syncQueue, [item EXCEPT !.retries = @ + 1]),
                             drains[c].processed, isSyncing)
                /\ UNCHANGED dropped
           ELSE /\ DrainLoop(c, syncQueue, drains[c].processed, isSyncing)
                /\ dropped' = dropped \cup {item.filePath}
        /\ UNCHANGED <<vault, synced>>

\* lines 627-638 after saveToObsidian threw (its catch has put the service in
\* fallback): the item goes back to the end of the queue with one more retry,
\* or its discard is logged; the loop goes on.
DrainFailure(c) ==
    LET item == drains[c].item
    IN  /\ fallbackMode' = TRUE
        /\ isConnected' = FALSE
        /\ syncLog' = interceptorLog
        /\ IF item.retries < retryAttempts
           THEN /\ DrainLoop(c, Append(syncQueue, [item EXCEPT !.retries = @ + 1]),
                             drains[c].processed, isSyncing)
                /\ UNCHANGED dropped
           ELSE /\ DrainLoop(c, syncQueue, drains[c].processed, isSyncing)
                /\ dropped' = dropped \cup {item.filePath}
        /\ UNCHANGED <<vault, synced>>

DrainMkdirGet(c) ==
    /\ drains[c].pc = "mkdirGet"
    /\ IF remote = "up"
       THEN /\ drains' = [drains EXCEPT ![c].pc = "put"]
            /\ UNCHANGED <<isConnected, fallbackMode, syncQueue, isSyncing, vault, synced,
                           dropped, syncLog>>
       ELSE DrainFailure(c)
    /\ UNCHANGED <<remote, localSync, writes>>
    /\ UNCHANGED <<lvars, rvars, tvars>>

\* lines 617-623: the PUT has ended; written, the item counts as processed.
DrainPut(c) ==
    /\ drains[c].pc = "put"
    /\ IF remote = "up"
       THEN /\ vault' = vault \cup {drains[c].item.filePath}
            /\ synced' = synced \cup {drains[c].item.filePath}
            /\ DrainLoop(c, syncQueue, drains[c].processed + 1, isSyncing)
            /\ UNCHANGED <<isConnected, fallbackMode, dropped, syncLog>>
       ELSE DrainFailure(c)
    /\ UNCHANGED <<remote, localSync, writes>>
    /\ UNCHANGED <<lvars, rvars, tvars>>

\* testConnection called on its own.
TestConnectionStart ==
    /\ drains["test"].pc = "idle"
    /\ drains' = [drains EXCEPT !["test"] = [IdleDrain EXCEPT !.pc = "testProbe"]]
    /\ UNCHANGED <<isConnected, fallbackMode, syncQueue, isSyncing, remote, vault,
                   localSync, synced, dropped, writes>>
    /\ UNCHANGED <<lvars, rvars, tvars, syncLog>>

TestConnectionEnd ==
    /\ drains["test"].pc = "testProbe"
    /\ isConnected' = testConnection.isConnected
    /\ fallbackMode' = testConnection.fallbackMode
    /\ drains' = [drains EXCEPT !["test"] = IdleDrain]
    /\ UNCHANGED <<syncQueue, isSyncing, remote, vault, localSync, synced, dropped, writes>>
    /\ syncLog' = testConnectionLog
    /\ UNCHANGED <<lvars, rvars, tvars>>

\* startSyncService (lines 651-681; server start, POST /service/start):
\* a probe is started and not awaited, and an interval is set whose handle
\* replaces the one this.syncInterval held.  maxIntervals bounds the
\* intervals that are live at once.
StartSyncService(maxIntervals) ==
    /\ intervals < maxIntervals
    /\ intervals' = intervals + 1
    /\ syncInterval' = Timeout
    /\ drains' = IF drains["test"].pc = "idle"
                 THEN [drains EXCEPT !["test"] = [IdleDrain EXCEPT !.pc = "testProbe"]]
                 ELSE drains
    /\ UNCHANGED <<isConnected, fallbackMode, syncQueue, isSyncing, remote, vault,
                   localSync, synced, dropped, writes, logLevel, syncLog>>
    /\ UNCHANGED <<lvars, rvars>>

\* stopSyncService (lines 686-692; POST /service/stop): the interval whose
\* handle this.syncInterval holds is cleared; with no handle nothing is done.
StopSyncService ==
    /\ syncInterval # Null
    /\ intervals' = intervals - 1
    /\ syncInterval' = Null
    /\ UNCHANGED <<isConnected, fallbackMode, syncQueue, isSyncing, drains, remote, vault,
                   localSync, synced, dropped, writes, logLevel, syncLog>>
    /\ UNCHANGED <<lvars, rvars>>

\* Obsidian starts, stops or starts answering with errors.
RemoteChanges(state) ==
    /\ remote # state
    /\ remote' = state
    /\ UNCHANGED <<isConnected, fallbackMode, syncQueue, isSyncing, drains, vault,
                   localSync, synced, dropped, writes>>
    /\ UNCHANGED <<lvars, rvars, tvars, syncLog>>

(***************************************************************************)
(* Initial states: the state after the two constructors.                   *)
(***************************************************************************)
\* A snapshot a previous run left: owner u1 with a chain one block short of
\* the next forced save, built as askAI builds it.
PriorBlock(prev) ==
    [userId |-> "u1", prompt |-> "hi", answer |-> generateFallbackResponse("hi"),
     prevHash |-> prev,
     hash |-> sha256(<<IF prev = Null THEN EmptyString ELSE prev, "hi",
                       generateFallbackResponse("hi"), 0>>),
     ts |-> 0, rating |-> 0]

RECURSIVE PriorChain(_)
PriorChain(n) ==
    IF n = 0 THEN <<>>
    ELSE LET c == PriorChain(n - 1)
         IN  Append(c, PriorBlock(IF n = 1 THEN Null ELSE c[n - 1].hash))

PriorBlocks == [u \in {"u1"} |-> PriorChain(ForceEvery - 1)]

PriorFile == JsonFile(Stringify(SnapshotData(PriorBlocks)))

\* A full backup directory a previous run left; its names are older than any
\* this run makes.
OldBackups == (0 - KeepBackups)..(-1)

\* BlockChainPersistence constructor (lines 11-21); files and dirs are what the
\* data directory may hold at start, n the number of requests of the behaviour.
LedgerInit(files, dirs, n) ==
    /\ inMemoryBlocks = EmptyMap
    /\ saveQueue = 0
    /\ isSaving = FALSE
    /\ storagePc = "mkdir"
    /\ saves = [c \in Callers |-> IdleSave]
    /\ blocksFile \in files
    /\ backupDir \in dirs
    /\ now = 0
    /\ appended = {}
    /\ lastSave = "none"
    /\ flushed = NothingFlushed
    /\ flushCount = 0
    /\ log = {}
    /\ saveCaller = NoCaller
    /\ responses = [r \in 1..n |-> NoResponse]
    /\ writes = [d \in 1..n |-> NoWrite]

\* ObsidianIntegrationService constructor (lines 173-184) with Obsidian in
\* one of the given states and the log at one of the given levels.
ServiceInitAt(states, levels) ==
    /\ isConnected = FALSE
    /\ fallbackMode = FALSE
    /\ syncQueue = <<>>
    /\ isSyncing = FALSE
    /\ drains = [c \in Drainers \cup {"test"} |-> IdleDrain]
    /\ remote \in states
    /\ vault = {}
    /\ localSync = {}
    /\ synced = {}
    /\ dropped = {}
    /\ syncInterval = Null
    /\ intervals = 0
    /\ logLevel \in levels
    /\ syncLog = [fallback |-> 0, reconnected |-> 0]

\* The same with LOG_LEVEL=error: the log says nothing of the mode.
ServiceInit(states) == ServiceInitAt(states, {"error"})

(***************************************************************************)
(* Spec: the ledger and its snapshot persistence under askAI requests and  *)
(* the autosave timer.  The Obsidian service stays as constructed: the     *)
(* saves askAI starts are not carried on here (SpecSync does that).        *)
(***************************************************************************)
Init ==
    /\ LedgerInit({AbsentFile, CorruptFile, PriorFile}, {{}}, MaxAppends)
    /\ ServiceInit({"down"})

Next ==
    \/ \E ok \in BOOLEAN : StorageMkdir(ok)
    \/ StorageAccess
    \/ \E ok \in BOOLEAN : StorageRead(ok)
    \/ \E u \in Owners, p \in Prompts : AskAI(u, p, MaxClock)
    \/ AutoSave
    \/ \E c \in Callers, ok \in BOOLEAN : WritePrimary(c, ok, MaxClock)
    \/ \E c \in Callers, ok \in BOOLEAN : WriteBackup(c, ok)
    \/ \E c \in Callers, ok \in BOOLEAN : Readdir(c, ok)

Spec == Init /\ [][Next]_vars

(***************************************************************************)
(* Properties of the ledger, checked under Spec.                           *)
(***************************************************************************)
\* The linkage the data model asks of a chain.
Linked(chain) ==
    \/ chain = <<>>
    \/ /\ chain[1].prevHash = Null
       /\ \A i \in 2..Len(chain) : chain[i].prevHash = chain[i - 1].hash

\* The blocks a fresh store would hold after loading the primary file.
BlocksOnDisk ==
    IF blocksFile.kind = "json"
    THEN LET m == ParseUsers(blocksFile.text)
         IN  UNION {{m[u][i] : i \in 1..Len(m[u])} : u \in DOMAIN m}
    ELSE {}

Quiescent ==
    /\ storagePc = "done"
    /\ \A c \in Callers : saves[c].pc = "idle"

\* C1: with askAI's appends serialised per owner (the read of the last block
\* and the insert are one step), every owner's chain in memory is linked from
\* a null prevHash, and validateChain reports it valid.
C1_ChainsLinked ==
    \A u \in DOMAIN inMemoryBlocks :
        /\ Linked(inMemoryBlocks[u])
        /\ validateChain(u).valid

\* C1 witness: an owner's chain of two blocks or more whose last block askAI appended.
C1_Witness ==
    \E u \in DOMAIN inMemoryBlocks :
        /\ Len(inMemoryBlocks[u]) >= 2
        /\ inMemoryBlocks[u][Len(inMemoryBlocks[u])] \in appended

\* C3 (as claimed): no appended block is lost between memory and disk.  When
\* no disk operation has failed, nothing is in flight and the save queue is
\* empty, the timer has nothing left to do, so every block addBlock returned
\* must be in the primary file by then.
C3_NoAppendLost ==
    (/\ Quiescent
     /\ saveQueue = 0
     /\ ~isSaving
     /\ log \cap {"save_error", "init_error", "read_error"} = {})
    => appended \subseteq BlocksOnDisk

C6_ParseFailureIsFatal ==
    "parse_error" \in log => ("init_ok" \notin log /\ blocksFile = CorruptFile)

\* C7 (as claimed): after a processSaveQueue run whose disk write failed, the
\* ledger is still dirty, so the next timer tick saves again.
C7_FailedFlushStaysDirty ==
    (lastSave = "failed" /\ ~isSaving) => saveQueue > 0

(***************************************************************************)
(* SpecValidate: validateChain on chains as a snapshot or a change in      *)
(* memory can leave them.  The store is loaded with one owner's chain,     *)
(* drawn from the chains of up to MaxChainLen blocks over two hashes, and  *)
(* getAIChain is asked for it.                                             *)
(***************************************************************************)
Hashes == {<<"h1">>, <<"h2">>}

AnyBlocks ==
    {[userId |-> "u1", prompt |-> "hi", answer |-> generateFallbackResponse("hi"),
      prevHash |-> p, hash |-> h, ts |-> 0, rating |-> 0] :
        p \in Hashes \cup {Null}, h \in Hashes}

AnyChains == UNION {[1..n -> AnyBlocks] : n \in 0..MaxChainLen}

\* getAIChain (ai.controller.js lines 203-241): the owner's chain and what
\* validateChain says of it.
GetAIChain(userId) ==
    /\ NextDoc \in DOMAIN responses
    /\ responses' = [responses EXCEPT ![NextDoc] =
            [status |-> 200, userId |-> userId, chain |-> getUserBlocks(userId),
             integrity |-> validateChain(userId)]]
    /\ UNCHANGED <<lvars, saveCaller, svars>>

\* The store after a load or a change in memory: any chain for owner u1.
InitValidate ==
    /\ \E c \in AnyChains :
         inMemoryBlocks = IF c = <<>> THEN EmptyMap ELSE MapSet(EmptyMap, "u1", c)
    /\ saveQueue = 0
    /\ isSaving = FALSE
    /\ storagePc = "done"
    /\ saves = [c \in Callers |-> IdleSave]
    /\ blocksFile = AbsentFile
    /\ backupDir = {}
    /\ now = 0
    /\ appended = {}
    /\ lastSave = "none"
    /\ flushed = NothingFlushed
    /\ flushCount = 0
    /\ log = {}
    /\ saveCaller = NoCaller
    /\ responses = [r \in 1..1 |-> NoResponse]
    /\ writes = [d \in 1..1 |-> NoWrite]
    /\ ServiceInit({"down"})

NextValidate == \E u \in Owners : GetAIChain(u)

SpecValidate == InitValidate /\ [][NextValidate]_vars

\* C2 (as claimed): validateChain reports valid exactly when the chain is
\* empty, or its first block has a null prevHash and every later block's
\* prevHash is the hash of the block before it.
C2_ValidIffLinked ==
    \A r \in DOMAIN responses :
        responses[r].status = 200 /\ "integrity" \in DOMAIN responses[r]
        => (responses[r].integrity.valid <=> Linked(responses[r].chain))

(***************************************************************************)
(* SpecRotation: the rotation of the backups under forced saves            *)
(* (POST /blockchain/save), one after the other, with every disk operation *)
(* succeeding.  The clock's horizon leaves room for every save to get a    *)
(* millisecond of its own.                                                 *)
(***************************************************************************)
InitRotation ==
    /\ LedgerInit({PriorFile}, {{}, OldBackups}, 0)
    /\ ServiceInit({"down"})

NextRotation ==
    \/ StorageMkdir(TRUE)
    \/ StorageAccess
    \/ StorageRead(TRUE)
    \/ (flushCount < MaxFlushes /\ ForceSave)
    \/ \E c \in Callers : WritePrimary(c, TRUE, MaxRotationClock)
    \/ \E c \in Callers : WriteBackup(c, TRUE)
    \/ \E c \in Callers : Readdir(c, TRUE)
    \/ \E c \in Callers : Unlink(c, TRUE)

SpecRotation == InitRotation /\ [][NextRotation]_vars

\* C5 (as claimed): when no save is running there are at most KeepBackups
\* backup files, and once KeepBackups + 5 saves have succeeded there are
\* exactly KeepBackups of them.
C5_Rotation ==
    (Quiescent /\ ~isSaving)
    => /\ Cardinality(backupDir) <= KeepBackups
       /\ flushCount >= KeepBackups + 5 => Cardinality(backupDir) = KeepBackups

(***************************************************************************)
(* SpecAsk: askAI with its mirror save, over the ledger with its startup   *)
(* load and forced saves, while Obsidian comes and goes.  The ledger's     *)
(* disk operations succeed here and the clock stands still (the time only  *)
(* enters the hash and the backup's name); the local write of the mirror   *)
(* may fail.                                                               *)
(***************************************************************************)
InitAsk ==
    /\ LedgerInit({PriorFile}, {{}}, MaxAsks)
    /\ ServiceInit({"up", "down", "error"})

NextAsk ==
    \/ StorageMkdir(TRUE)
    \/ StorageAccess
    \/ StorageRead(TRUE)
    \/ \E u \in Owners, p \in Prompts : AskAI(u, p, now)
    \/ \E c \in Callers : WritePrimary(c, TRUE, now)
    \/ \E c \in Callers : WriteBackup(c, TRUE)
    \/ \E c \in Callers : Readdir(c, TRUE)
    \/ \E d \in DOMAIN writes : WriteProbe(d)
    \/ \E d \in DOMAIN writes : WriteMkdirGet(d)
    \/ \E d \in DOMAIN writes : WritePut(d)
    \/ \E d \in DOMAIN writes, ok \in BOOLEAN : WriteLocal(d, ok)
    \/ \E state \in {"up", "down", "error"} : RemoteChanges(state)

SpecAsk == InitAsk /\ [][NextAsk]_vars

\* C8: what askAI answers does not depend on the mirror.  Every response sent
\* is a 200 with the hash and prevHash of a block that was appended; the
\* response is out as soon as the mirror save of its request has started,
\* whatever the save's probe and write come to; and a request that has
\* appended its block and not answered yet waits for the ledger's forced
\* save alone, its mirror save not started.
C8_ResponseWithoutMirror ==
    /\ \A r \in DOMAIN responses :
         /\ responses[r].status # 0 =>
               /\ responses[r].status = 200
               /\ \E b \in appended : /\ b.hash = responses[r].hash
                                      /\ b.prevHash = responses[r].prevHash
         /\ writes[r].pc # "none" => responses[r].status = 200
    /\ saveCaller.kind = "askAI" =>
         /\ isSaving
         /\ saves["queue"].pc # "idle"
         /\ saveCaller.block \in appended
         /\ writes[saveCaller.req].pc = "none"

\* C8 witness: a request whose mirror write failed and whose response is a 200.
C8_Witness ==
    \E r \in DOMAIN responses :
        /\ writes[r].pc = "failed"
        /\ responses[r].status = 200

(***************************************************************************)
(* SpecSync: the write paths of the mirror (askAI's save for an owner with *)
(* a short chain, the sync* methods), the probes and the drains of the     *)
(* sync queue, while Obsidian comes and goes.  The ledger's startup and    *)
(* saves take no step here and the clock stands still.                     *)
(***************************************************************************)
InitSync ==
    /\ LedgerInit({AbsentFile}, {{}}, MaxDocs)
    /\ ServiceInit({"up", "down", "error"})

NextSync ==
    \/ \E p \in Prompts : AskAI("u2", p, now)
    \/ \E d \in DOMAIN writes : WriteProbe(d)
    \/ \E d \in DOMAIN writes : WriteMkdirGet(d)
    \/ \E d \in DOMAIN writes : WritePut(d)
    \/ \E d \in DOMAIN writes, ok \in BOOLEAN : WriteLocal(d, ok)
    \/ \E type \in DocTypes, operation \in {"create", "delete"} : SyncDocument(type, operation)
    \/ \E state \in {"up", "down", "error"} : RemoteChanges(state)
    \/ ProcessSyncQueue("manual")
    \/ TimerTick("timer")
    \/ TickProbe("timer")
    \/ \E c \in Drainers : DrainProbe(c)
    \/ \E c \in Drainers : DrainMkdirGet(c)
    \/ \E c \in Drainers : DrainPut(c)
    \/ TestConnectionStart
    \/ TestConnectionEnd
    \/ StartSyncService(1)

SpecSync == InitSync /\ [][NextSync]_vars

\* The document has an item in the sync queue or in the hand of a drain.
HasItem(d) ==
    \/ \E i \in 1..Len(syncQueue) : syncQueue[i].filePath = d
    \/ \E c \in Drainers : /\ drains[c].pc \in {"mkdirGet", "put"}
                           /\ drains[c].item.filePath = d

\* C9 (as claimed): a write path that has ended with the mirror's answer
\* (written, or the direct write failed) or on local disk has left the
\* document in Obsidian, or on local disk with an item enqueued for it (which
\* a drain may have taken since).
C9_FailedDirectWriteFallsBack ==
    \A d \in DOMAIN writes :
        writes[d].pc \in {"done", "doneLocal", "failed"}
        => \/ d \in vault
           \/ /\ d \in localSync
              /\ (HasItem(d) \/ d \in synced \/ d \in dropped)

\* C10 (as claimed): an item that was enqueued is in the queue or in the hand
\* of a drain, unless its write succeeded or its discard after the last retry
\* was logged.
C10_ItemsLeaveBySuccessOrDrop ==
    \A d \in DOMAIN writes :
        writes[d].pc \in {"doneLocal", "queued"}
        => (HasItem(d) \/ d \in synced \/ d \in dropped)

(***************************************************************************)
(* SpecDrain: the sync queue and its drains alone.  Documents come in by   *)
(* syncBlock, go to local disk and the queue while the service is not      *)
(* connected, and the timer's callback and POST /queue/process drain the   *)
(* queue while Obsidian comes and goes.                                    *)
(***************************************************************************)
InitDrain ==
    /\ LedgerInit({AbsentFile}, {{}}, MaxItems)
    /\ ServiceInit({"up", "down", "error"})

NextDrain ==
    \/ SyncDocument("block", "create")
    \/ \E d \in DOMAIN writes : WriteMkdirGet(d)
    \/ \E d \in DOMAIN writes : WritePut(d)
    \/ \E d \in DOMAIN writes : WriteLocal(d, TRUE)
    \/ \E state \in {"up", "down", "error"} : RemoteChanges(state)
    \/ ProcessSyncQueue("manual")
    \/ TimerTick("timer")
    \/ TickProbe("timer")
    \/ \E c \in Drainers : DrainProbe(c)
    \/ \E c \in Drainers : DrainMkdirGet(c)
    \/ \E c \in Drainers : DrainPut(c)
    \/ StartSyncService(1)
    \/ TestConnectionEnd

SpecDrain == InitDrain /\ [][NextDrain]_vars

\* The items in the queue and in the hands of the drains.
Items ==
    {syncQueue[i] : i \in 1..Len(syncQueue)}
    \cup {drains[c].item : c \in {c \in Drainers : drains[c].pc \in {"mkdirGet", "put"}}}

\* C11: the retry ceiling.  An item's retries count the writes of it that
\* failed; an item in the queue or in hand has failed at most retryAttempts
\* times, so that it is attempted at most retryAttempts + 1 times; and an item
\* whose discard was logged (after its failure number retryAttempts + 1) is in
\* no queue and in no hand any more, so that it is not attempted again, not
\* written later and not discarded a second time.
C11_RetryCeiling ==
    /\ \A item \in Items : item.retries <= retryAttempts
    /\ \A d \in dropped : ~HasItem(d) /\ d \notin synced /\ d \notin vault

\* C11 witness: an item was discarded while another one, which has failed
\* retryAttempts times, is in hand for its last attempt.
C11_Witness ==
    /\ dropped # {}
    /\ \E c \in Drainers : /\ drains[c].pc = "mkdirGet"
                           /\ drains[c].item.retries = retryAttempts

\* C12 (as claimed): Scenario D.  While Obsidian refuses connections and one
\* item is pending, a drain cycle of the timer attempts the item once: when the
\* write of the item in hand fails, the cycle ends, with the item back in the
\* queue for the next cycle while it has failed at most retryAttempts times,
\* and with the item discarded and the queue empty at its failure number
\* retryAttempts + 1.
C12_OneAttemptPerCycle ==
    [][(/\ remote = "down" /\ remote' = "down"
        /\ syncQueue = <<>>
        /\ drains["manual"].pc = "idle"
        /\ drains["timer"].pc \in {"mkdirGet", "put"}
        /\ drains'["timer"] # drains["timer"])
       => LET item == drains["timer"].item
          IN  /\ drains'["timer"].pc = "idle"
              /\ IF item.retries < retryAttempts
                 THEN /\ syncQueue' = <<[item EXCEPT !.retries = @ + 1]>>
                      /\ dropped' = dropped
                 ELSE /\ syncQueue' = <<>>
                      /\ dropped' = dropped \cup {item.filePath}]_vars

(***************************************************************************)
(* SpecReconcile: the periodic worker alone with the queue, under          *)
(* fairness.  Documents are created and deleted through syncBlock, the     *)
(* service is started, and Obsidian comes and goes.  The fairness is what  *)
(* the scheduling gives: the server's start calls startSyncService, a live *)
(* interval fires again and again (every syncInterval ms, line 678), an    *)
(* HTTP call ends (the client's timeout, line 201), a write to local disk  *)
(* ends.  Nothing makes a client send a request or Obsidian change.        *)
(***************************************************************************)
InitReconcile ==
    /\ LedgerInit({AbsentFile}, {{}}, MaxItems)
    /\ ServiceInit({"up", "down"})

NextReconcile ==
    \/ \E operation \in {"create", "delete"} : SyncDocument("block", operation)
    \/ \E d \in DOMAIN writes : WriteMkdirGet(d)
    \/ \E d \in DOMAIN writes : WritePut(d)
    \/ \E d \in DOMAIN writes : WriteLocal(d, TRUE)
    \/ \E state \in {"up", "down"} : RemoteChanges(state)
    \/ StartSyncService(1)
    \/ TestConnectionEnd
    \/ TimerTick("timer")
    \/ TickProbe("timer")
    \/ DrainProbe("timer")
    \/ DrainMkdirGet("timer")
    \/ DrainPut("timer")

SpecReconcile ==
    /\ InitReconcile
    /\ [][NextReconcile]_vars
    /\ WF_vars(StartSyncService(1))
    /\ WF_vars(TestConnectionEnd)
    /\ WF_vars(TimerTick("timer"))
    /\ WF_vars(TickProbe("timer"))
    /\ WF_vars(DrainProbe("timer"))
    /\ WF_vars(DrainMkdirGet("timer"))
    /\ WF_vars(DrainPut("timer"))
    /\ WF_vars(\E d \in DOMAIN writes : WriteMkdirGet(d))
    /\ WF_vars(\E d \in DOMAIN writes : WritePut(d))
    /\ WF_vars(\E d \in DOMAIN writes : WriteLocal(d, TRUE))

\* C13 (as claimed): reconciliation.  From any moment on from which Obsidian
\* stays reachable, every document that has an item in the sync queue (or in
\* the worker's hand) is eventually written to Obsidian.
C13_Reconciliation ==
    \A d \in 1..MaxItems : []((HasItem(d) /\ [](remote = "up")) => <>(d \in vault))

(***************************************************************************)
(* The mode of the service: CONNECTED is isConnected without fallbackMode. *)
(***************************************************************************)
Connected == isConnected /\ ~fallbackMode

\* The step ends a probe: a testConnection's GET that was in flight ends.
ProbeEnds ==
    \/ \E d \in DOMAIN writes : writes[d].pc = "probe" /\ writes'[d].pc # "probe"
    \/ \E c \in DOMAIN drains : /\ drains[c].pc \in {"probe", "tickProbe", "testProbe"}
                                /\ drains'[c] # drains[c]

\* The step ends a mirror write (saveToObsidian's GET or PUT) in a failure.
WriteFails ==
    /\ remote # "up"
    /\ \/ \E d \in DOMAIN writes : writes[d].pc \in {"mkdirGet", "put"} /\ writes'[d].pc = "failed"
       \/ \E c \in Drainers : /\ drains[c].pc \in {"mkdirGet", "put"}
                              /\ drains'[c] # drains[c]

\* C14 (as claimed): the mode becomes CONNECTED only in a probe that
\* succeeded; it leaves CONNECTED exactly when a probe fails or a mirror write
\* fails because the connection was refused; a mirror write that fails with
\* an error of another class (an error status) leaves the mode as it was.
C14_ModeTransitions ==
    [][/\ (~Connected /\ Connected') => (ProbeEnds /\ remote = "up")
       /\ (Connected /\ ~Connected')
            => ((ProbeEnds /\ remote # "up") \/ (WriteFails /\ remote = "down"))
       /\ (Connected /\ ((ProbeEnds /\ remote # "up") \/ (WriteFails /\ remote = "down")))
            => ~Connected'
       /\ (WriteFails /\ remote = "error") => (Connected' <=> Connected)]_vars

(***************************************************************************)
(* SpecMode: the mode and what is logged about it (LOG_LEVEL=info), under  *)
(* probes (GET /status, POST /test-connection) and direct writes, while    *)
(* Obsidian comes and goes.                                                *)
(***************************************************************************)
InitMode ==
    /\ LedgerInit({AbsentFile}, {{}}, MaxItems)
    /\ ServiceInitAt({"up", "down", "error"}, {"info"})

NextMode ==
    \/ (syncLog.fallback + syncLog.reconnected < MaxModeLog /\ TestConnectionStart)
    \/ TestConnectionEnd
    \/ SyncDocument("block", "create")
    \/ \E d \in DOMAIN writes : WriteMkdirGet(d)
    \/ \E d \in DOMAIN writes : WritePut(d)
    \/ \E d \in DOMAIN writes : WriteLocal(d, TRUE)
    \/ \E state \in {"up", "down", "error"} : RemoteChanges(state)

SpecMode == InitMode /\ [][NextMode]_vars

BeforeFirstProbe == ~isConnected /\ ~fallbackMode

\* C16 (as claimed): until the first successful probe the mode is FALLBACK.
\* What askAI reports of a service that is not connected is the mode
\* fallback, and while the service is as constructed neither a write path nor
\* a drain has a mirror write in flight.
C16_FallbackUntilFirstProbe ==
    /\ \A r \in DOMAIN responses :
         (responses[r].status = 200 /\ ~responses[r].connected)
         => responses[r].mode = "fallback"
    /\ BeforeFirstProbe =>
         /\ \A d \in DOMAIN writes : writes[d].pc \notin {"mkdirGet", "put"}
         /\ \A c \in Drainers : drains[c].pc \notin {"mkdirGet", "put"}

\* The positions (from 1) at which a chain's linkage fails: the first block
\* with a prevHash that is not null, a later block with a prevHash that is not
\* the hash of the block before it.
FailingRecords(chain) ==
    {i \in 1..Len(chain) :
        IF i = 1 THEN chain[1].prevHash # Null
                 ELSE chain[i].prevHash # chain[i - 1].hash}

\* C17 (as claimed): of a chain whose linkage fails somewhere, validateChain
\* says valid = false with the index (from 0) of the first record at which it
\* fails, as a value in the response.
C17_FirstFailingIndex ==
    \A r \in DOMAIN responses :
        (/\ responses[r].status # 0
         /\ "chain" \in DOMAIN responses[r]
         /\ FailingRecords(responses[r].chain) # {})
        => /\ responses[r].status = 200
           /\ ~responses[r].integrity.valid
           /\ \A i \in FailingRecords(responses[r].chain) :
                responses[r].integrity.blockIndex <= i - 1
           /\ responses[r].integrity.blockIndex + 1 \in FailingRecords(responses[r].chain)

\* The records of the ledger: owner and position in the owner's chain.
Records ==
    UNION {{<<userId, i>> : i \in 1..Len(inMemoryBlocks[userId])} :
              userId \in DOMAIN inMemoryBlocks}

\* C18 (as claimed): no two records of the ledger, of one owner or of two,
\* have the same hash.
C18_UniqueHash ==
    \A x \in Records, y \in Records :
        x # y => inMemoryBlocks[x[1]][x[2]].hash # inMemoryBlocks[y[1]][y[2]].hash

(***************************************************************************)
(* SpecRate: the ledger under appends and ratings (POST /rate/:hash), with *)
(* its startup load and the saves they start.  The disk operations succeed *)
(* and the clock stands still.                                             *)
(***************************************************************************)
InitRate ==
    /\ LedgerInit({AbsentFile}, {{}}, MaxAsks)
    /\ ServiceInit({"down"})

NextRate ==
    \/ StorageMkdir(TRUE)
    \/ StorageAccess
    \/ StorageRead(TRUE)
    \/ \E u \in Owners, p \in Prompts : AskAI(u, p, now)
    \/ \E x \in Records, rating \in Ratings :
          /\ flushCount < MaxRateSaves
          /\ RateAIResponse(x[1], inMemoryBlocks[x[1]][x[2]].hash, rating)
    \/ \E c \in Callers : WritePrimary(c, TRUE, now)
    \/ \E c \in Callers : WriteBackup(c, TRUE)
    \/ \E c \in Callers : Readdir(c, TRUE)

SpecRate == InitRate /\ [][NextRate]_vars

\* C19 (as claimed): once the store is loaded, every record of the ledger
\* stays where it is in its owner's chain with its owner, prompt, answer,
\* prevHash, hash and timestamp, whatever is done next; and a rating that is
\* set stays as it is.
C19_RecordsImmutable ==
    [][storagePc = "done" =>
         \A x \in Records :
            /\ x \in Records'
            /\ LET before == inMemoryBlocks[x[1]][x[2]]
                   after == inMemoryBlocks'[x[1]][x[2]]
               IN  /\ after.userId = before.userId
                   /\ after.prompt = before.prompt
                   /\ after.answer = before.answer
                   /\ after.prevHash = before.prevHash
                   /\ after.hash = before.hash
                   /\ after.ts = before.ts
                   /\ before.rating # 0 => after.rating = before.rating]_vars

(***************************************************************************)
(* SpecTimers: the sync service started and stopped (server start,         *)
(* POST /service/start, POST /service/stop) in any order, with the         *)
(* callback of its intervals draining the queue.                           *)
(***************************************************************************)
InitTimers ==
    /\ LedgerInit({AbsentFile}, {{}}, MaxItems)
    /\ ServiceInit({"up", "down"})

NextTimers ==
    \/ StartSyncService(MaxIntervals)
    \/ StopSyncService
    \/ TestConnectionEnd
    \/ SyncDocument("block", "create")
    \/ \E d \in DOMAIN writes : WriteMkdirGet(d)
    \/ \E d \in DOMAIN writes : WritePut(d)
    \/ \E d \in DOMAIN writes : WriteLocal(d, TRUE)
    \/ \E state \in {"up", "down"} : RemoteChanges(state)
    \/ TimerTick("timer")
    \/ TickProbe("timer")
    \/ DrainProbe("timer")
    \/ DrainMkdirGet("timer")
    \/ DrainPut("timer")

SpecTimers == InitTimers /\ [][NextTimers]_vars

\* C20 (as claimed): the periodic worker of the sync queue can be stopped.
\* While the service holds no interval (stopSyncService has returned and
\* startSyncService was not called since, whatever was called before), no
\* callback of the timer starts: the timer's drain does not leave idle.  A
\* drain that is running goes on.
C20_StoppedWorkerStaysStopped ==
    [][(syncInterval = Null /\ syncInterval' = Null /\ drains["timer"].pc = "idle")
       => drains'["timer"].pc = "idle"]_vars

(***************************************************************************)
(* The drains at work: a drain is popping items when it has an item in     *)
(* hand (its saveToObsidian is in flight inside the while loop).           *)
(***************************************************************************)
\* C21 (as claimed): drain mutual exclusion.  Whatever the order of the
\* triggers (the timer's callback, POST /queue/process), at most one
\* processSyncQueue run is inside its loop with an item in hand at any time.
C21_DrainMutualExclusion ==
    Cardinality({c \in Drainers : drains[c].pc \in {"mkdirGet", "put"}}) <= 1

(***************************************************************************)
(* The snapshot writes in progress: a saveToDisk call is in progress from  *)
(* its start until it returns to its caller.                               *)
(***************************************************************************)
\* C22 (as claimed): flush mutual exclusion.  Whatever the order of the
\* startup load, the appends, the timer's ticks and the forced saves, at most
\* one saveToDisk call (primary file, backup, clean-up) is in progress at any
\* time.
C22_FlushMutualExclusion ==
    Cardinality({c \in Callers : saves[c].pc # "idle"}) <= 1

\* C23 (as claimed): a drain started while the service is not connected
\* probes before it writes.  A processSyncQueue run that starts while
\* isConnected is false does not take an item in hand without a probe, and a
\* run whose probe has failed ends with the queue as it was: the same items
\* in the same order with the same retries, and nothing discarded.
C23_ProbeBeforeWrite ==
    [][\A c \in Drainers :
          /\ (drains[c].pc = "idle" /\ ~isConnected) => drains'[c].pc # "mkdirGet"
          /\ (drains[c].pc = "probe" /\ drains'[c] # drains[c] /\ ~isConnected')
             => /\ drains'[c] = IdleDrain
                /\ syncQueue' = syncQueue
                /\ dropped' = dropped
                /\ isSyncing' = isSyncing]_vars

(***************************************************************************)
(* SpecBatch: one caller's drains of a queue of up to MaxBatchItems items  *)
(* (POST /queue/process), while Obsidian comes and goes.  The documents    *)
(* come in by syncBlock while the service is not connected.                *)
(***************************************************************************)
InitBatch ==
    /\ LedgerInit({AbsentFile}, {{}}, MaxBatchItems)
    /\ ServiceInit({"up", "down"})

NextBatch ==
    \/ SyncDocument("block", "create")
    \/ \E d \in DOMAIN writes : WriteLocal(d, TRUE)
    \/ \E state \in {"up", "down"} : RemoteChanges(state)
    \/ ProcessSyncQueue("manual")
    \/ DrainProbe("manual")
    \/ DrainMkdirGet("manual")
    \/ DrainPut("manual")

SpecBatch == InitBatch /\ [][NextBatch]_vars

\* C24 (as claimed): the batch bound.  One processSyncQueue run makes at most
\* batchSize calls of saveToObsidian, whatever the mix of writes that succeed
\* and writes that fail.
C24_BatchBound ==
    \A c \in Drainers : drains[c].attempts <= batchSize

(***************************************************************************)
(* SpecForce: the forced save of addBlock.  Two owners append up to        *)
(* MaxForceAppends blocks in any order on a first start (no primary file), *)
(* with the startup load and the saves the appends force.  The autosave    *)
(* timer does not fire, the disk operations succeed and the clock stands   *)
(* still.                                                                  *)
(***************************************************************************)
InitForce ==
    /\ LedgerInit({AbsentFile}, {{}}, MaxForceAppends)
    /\ ServiceInit({"down"})

NextForce ==
    \/ StorageMkdir(TRUE)
    \/ StorageAccess
    \/ \E u \in Owners, p \in Prompts : AskAI(u, p, now)
    \/ \E c \in Callers : WritePrimary(c, TRUE, now)
    \/ \E c \in Callers : WriteBackup(c, TRUE)
    \/ \E c \in Callers : Readdir(c, TRUE)

SpecForce == InitForce /\ [][NextForce]_vars

\* C25 (as claimed): the forced flush.  An append starts a flush at once
\* (addBlock's own processSaveQueue run) exactly when it is a ForceEvery-th
\* append of the ledger, counted over the appends of all owners.
C25_ForcedFlushEveryKth ==
    [][appended' # appended
       => ((Cardinality(appended') % ForceEvery = 0)
           <=> (saveCaller' # saveCaller /\ saveCaller'.kind = "askAI"))]_vars

(***************************************************************************)
(* Requests of one owner that overlap: a request is suspended at the       *)
(* forced save of addBlock (line 201) or after its response, never between *)
(* getLastBlock (line 90) and the push of addBlock (line 193).             *)
(***************************************************************************)
\* C26: no fork under concurrent requests.  In every owner's chain in memory
\* no two blocks have the same prevHash, and validateChain reports the chain
\* valid, also when a request of the owner appends while an earlier request
\* of the owner is still waiting in addBlock.
C26_NoForkUnderConcurrency ==
    \A u \in DOMAIN inMemoryBlocks :
        LET chain == inMemoryBlocks[u]
        IN  /\ \A i, j \in 1..Len(chain) :
                  i # j => chain[i].prevHash # chain[j].prevHash
            /\ validateChain(u).valid

\* C26 witness: a request is waiting in addBlock for its forced save, and a
\* later request of the same owner has appended the block after its block.
C26_Witness ==
    /\ saveCaller.kind = "askAI"
    /\ LET chain == getUserBlocks(saveCaller.block.userId)
       IN  \E i \in 1..(Len(chain) - 1) :
              /\ chain[i] = saveCaller.block
              /\ chain[i + 1] \in appended
              /\ chain[i + 1].prevHash = saveCaller.block.hash

\* C27 (as claimed): a block addBlock has returned stays in its owner's chain
\* in memory, also when it was appended before the startup load had ended.
C27_AppendedStaysInMemory ==
    \A b \in appended :
        \E i \in 1..Len(getUserBlocks(b.userId)) : getUserBlocks(b.userId)[i] = b

(***************************************************************************)
(* The two files of one saveToDisk call.  The text of the backup is what   *)
(* the call hands to its second writeFile (line 107).                      *)
(***************************************************************************)
\* The document's metadata count what the document lists.
MetadataAgree(text) ==
    /\ text.metadata.totalUsers = Cardinality(DOMAIN text.users)
    /\ text.metadata.totalBlocks = SumLen(text.users, DOMAIN text.users)

\* C28 (as claimed): each flush writes one consistent snapshot.  In the
\* primary file and in the backup a saveToDisk call is writing, the metadata
\* count the owners and the blocks the file lists, also when blocks were
\* appended while the call was writing.
C28_ConsistentSnapshot ==
    /\ blocksFile.kind = "json" => MetadataAgree(blocksFile.text)
    /\ \A c \in Callers : saves[c].pc = "writeBackup" => MetadataAgree(saves[c].text)

(***************************************************************************)
(* rateAIResponse answers with success when its forceSave has returned:    *)
(* at once when a save was running (processSaveQueue line 165), else when  *)
(* the save it started has ended.                                          *)
(***************************************************************************)
\* C29 (as claimed): a rating is durable once the rate operation reports
\* success.  With every disk write succeeding, when rateAIResponse returns,
\* the block with the rating it has set is in the primary file (as a fresh
\* store would load it), or the
\* ledger is dirty (saveQueue is not empty), so that a later tick of the
\* autosave timer writes it.
C29_RatingDurable ==
    [][/\ \A x \in Records :
             (/\ isSaving
              /\ x \in Records'
              /\ inMemoryBlocks'[x[1]][x[2]].rating # inMemoryBlocks[x[1]][x[2]].rating)
             => (saveQueue' > 0 \/ inMemoryBlocks'[x[1]][x[2]] \in BlocksOnDisk')
       /\ (saveCaller.kind = "rate" /\ saveCaller'.kind # "rate")
             => LET x == <<saveCaller.userId, saveCaller.blockIndex>>
                IN  (x \in Records' /\ inMemoryBlocks'[x[1]][x[2]].rating = saveCaller.rating)
                    => (saveQueue' > 0 \/ inMemoryBlocks'[x[1]][x[2]] \in BlocksOnDisk')]_vars

(***************************************************************************)
(* SpecTerminate: the drains of SpecDrain over up to MaxTerminateItems     *)
(* documents, with the fairness the HTTP client gives: a call to Obsidian  *)
(* that is in flight ends (with an answer, a refusal or the client's       *)
(* timeout, line 201), so a probe or a write of a drain that has started   *)
(* ends.  Nothing makes a request arrive or the timer fire.                *)
(***************************************************************************)
InLoop(c) == drains[c].pc \in {"mkdirGet", "put"}

InitTerminate ==
    /\ LedgerInit({AbsentFile}, {{}}, MaxTerminateItems)
    /\ ServiceInit({"up", "down", "error"})

SpecTerminate ==
    /\ InitTerminate
    /\ [][NextDrain]_vars
    /\ WF_vars(TickProbe("timer"))
    /\ \A c \in Drainers : /\ WF_vars(DrainProbe(c))
                            /\ WF_vars(DrainMkdirGet(c))
                            /\ WF_vars(DrainPut(c))

\* C30: every drain run ends and releases its flag.  A processSyncQueue run
\* that is in its loop leaves it, whatever its writes come to; and isSyncing
\* is true only while a run is in its loop, so that no call is turned away
\* by a flag no run will reset.
C30_DrainTerminates ==
    /\ [](isSyncing => \E c \in Drainers : InLoop(c))
    /\ \A c \in Drainers : (InLoop(c) ~> drains[c].pc = "idle")

\* C30 witness: a run has returned after every write of its item failed: the
\* item was discarded at its last failure, the queue is empty, no run is at
\* work and the flag is released.
C30_Witness ==
    /\ ~isSyncing
    /\ \A c \in Drainers : drains[c].pc = "idle"
    /\ syncQueue = <<>>
    /\ dropped # {}

====
